---- MODULE Spec2Model ----
(***************************************************************************)
(* Model of the egui/wgpu frame renderer: src/src/render.rs (WgpuRenderer, *)
(* encode_bg, encode_fg, to_scissor_rect), src/src/render/buffer.rs        *)
(* (geometry staging), src/src/render/texture.rs (texture cache helpers)   *)
(* and the redraw / resize handlers of src/src/app.rs.                     *)
(*                                                                         *)
(* Geometry is modelled by its size: a mesh carries its vertex count and   *)
(* its index count, a buffer its capacity in bytes and the byte ranges     *)
(* written into it, tagged with the position of the primitive they hold.   *)
(* Real numbers (clip rectangles in points, pixels per point) are fixed    *)
(* point numbers with two binary digits after the point.                   *)
(***************************************************************************)
EXTENDS Integers, Sequences, FiniteSets, TLC

VARIABLES
    window,          \* the winit window: inner size and minimized flag
    redraw_requested,\* a RedrawRequested event is pending
    surface,         \* what Surface::get_current_texture answers next
    config,          \* WgpuRenderer.config: <<width, height>>
    vertex_buffer,   \* WgpuRenderer.vertex_buffer: [size, gen]
    index_buffer,    \* WgpuRenderer.index_buffer: [size, gen]
    cache,           \* HashMap<TextureId, TextureResource>
    samplers,        \* HashMap<egui::TextureOptions, wgpu::Sampler>
    pc,              \* position of the single (event loop) thread
    triangles,       \* the tick's tessellated primitives
    textures_delta,  \* the tick's output.textures_delta, or the argument of
                     \* the texture function that is running
    screen,          \* the tick's ScreenDescriptor
    encoder,         \* commands recorded into the frame's CommandEncoder
    vstaged,         \* byte ranges written by send_vertex_buffer this frame
    istaged,         \* byte ranges written by send_index_buffer this frame
    fg,              \* encode_fg's loop state: [i, voffset, ioffset]
    submitted,       \* command buffers handed to queue.submit this tick
    presented,       \* number of texture.present() calls this tick
    result,          \* what render returned: "none", "Ok" or the error
    events           \* what happened in this tick, in order

vars == <<window, redraw_requested, surface, config, vertex_buffer, index_buffer,
          cache, samplers, pc, triangles, textures_delta, screen, encoder, vstaged,
          istaged, fg, submitted, presented, result, events>>

----------------------------------------------------------------------------
(* Program constants *)

\* size_of::<egui::epaint::Vertex>(): two Float32x2 and one Uint32
VertexSize == 20
\* size_of::<u32>()
IndexSize == 4
\* initial vertex buffer: size_of::<Vertex>() * 1024
InitVertexCount == 1024
\* initial index buffer: size_of::<u32>() * 1024 * 3
InitIndexCount == 3072
DEFAULT_WIDTH == 1360
DEFAULT_HEIGHT == 1024

(* Bounds of the model *)
MaxPrims == 2
MaxDelta == 1
MaxBatch == 2

----------------------------------------------------------------------------
(* Fixed point: a real x is the integer 4 * x *)

Fix(n) == 4 * n

\* f32::round of the product of two fixed point numbers (half away from zero)
RoundProduct(a, b) ==
    LET p == a * b
        d == Fix(1) * Fix(1)
    IN  IF p >= 0 THEN (2 * p + d) \div (2 * d)
                  ELSE 0 - ((2 * (0 - p) + d) \div (2 * d))

\* `x as u32` of a float saturates: a negative x gives 0. (It also gives
\* u32::MAX above u32::MAX, which no coordinate of the model comes near.)
AsU32(x) == IF x < 0 THEN 0 ELSE x

Clamp(x, lo, hi) == IF x < lo THEN lo ELSE IF x > hi THEN hi ELSE x

SaturatingSub(a, b) == IF a >= b THEN a - b ELSE 0

None == <<>>

Rect(l, t, r, b) == [left |-> Fix(l), top |-> Fix(t), right |-> Fix(r), bottom |-> Fix(b)]

\* a scissor mapping that hands out the rect whatever its width and height
to_scissor_rect_KeepEmpty(clip_rect, scr) ==
    LET x0 == AsU32(RoundProduct(clip_rect.left, scr.pixel_per_point))
        y0 == AsU32(RoundProduct(clip_rect.top, scr.pixel_per_point))
        x1 == AsU32(RoundProduct(clip_rect.right, scr.pixel_per_point))
        y1 == AsU32(RoundProduct(clip_rect.bottom, scr.pixel_per_point))
        x == Clamp(x0, 0, scr.screen_width)
        y == Clamp(y0, 0, scr.screen_height)
        w == SaturatingSub(Clamp(x1, 0, scr.screen_width), x)
        h == SaturatingSub(Clamp(y1, 0, scr.screen_height), y)
    IN  <<x, y, w, h>>

\* a scissor rect whose width is taken from the unclamped right edge
to_scissor_rect_NoClamp(clip_rect, scr) ==
    LET x0 == AsU32(RoundProduct(clip_rect.left, scr.pixel_per_point))
        y0 == AsU32(RoundProduct(clip_rect.top, scr.pixel_per_point))
        x1 == AsU32(RoundProduct(clip_rect.right, scr.pixel_per_point))
        y1 == AsU32(RoundProduct(clip_rect.bottom, scr.pixel_per_point))
        x == Clamp(x0, 0, scr.screen_width)
        y == Clamp(y0, 0, scr.screen_height)
        w == SaturatingSub(x1, x)
        h == SaturatingSub(Clamp(y1, 0, scr.screen_height), y)
    IN  IF (w # 0) /\ (h # 0) THEN <<x, y, w, h>> ELSE None

to_scissor_rect(clip_rect, scr) ==
    LET x0 == AsU32(RoundProduct(clip_rect.left, scr.pixel_per_point))
        y0 == AsU32(RoundProduct(clip_rect.top, scr.pixel_per_point))
        x1 == AsU32(RoundProduct(clip_rect.right, scr.pixel_per_point))
        y1 == AsU32(RoundProduct(clip_rect.bottom, scr.pixel_per_point))
        x == Clamp(x0, 0, scr.screen_width)
        y == Clamp(y0, 0, scr.screen_height)
        w == SaturatingSub(Clamp(x1, 0, scr.screen_width), x)
        h == SaturatingSub(Clamp(y1, 0, scr.screen_height), y)
    IN  IF (w # 0) /\ (h # 0) THEN <<x, y, w, h>> ELSE None

----------------------------------------------------------------------------
(* Inputs *)

TexIds == {"T1", "T2"}

ClipA == Rect(10, 10, 50, 50)
ClipB == Rect(30, 30, 70, 70)
ClipOut == Rect(900, 700, 950, 750)
Clips == {ClipA, ClipB, ClipOut}

Mesh(clip, nv, ni, tex) ==
    [kind |-> "Mesh", clip_rect |-> clip, nv |-> nv, ni |-> ni, texture_id |-> tex]
Callback(clip) ==
    [kind |-> "Callback", clip_rect |-> clip, nv |-> 0, ni |-> 0, texture_id |-> "T1"]

\* vertex and index counts: empty, small, and filling the initial buffers
Geoms == {<<0, 0>>, <<1, 3>>, <<InitVertexCount, 3>>, <<1, InitIndexCount>>}

\* primitives that differ in kind, clip rect and texture
Prims ==
    {Mesh(ClipA, g[1], g[2], "T1") : g \in {<<0, 0>>, <<1, 0>>, <<1, 3>>}}
    \cup {Mesh(ClipB, 1, 3, "T2"), Mesh(ClipOut, 1, 3, "T1")}
    \cup {Callback(c) : c \in {ClipA, ClipOut}}

\* primitives that differ in the size of their geometry
BufferPrims == {Mesh(ClipA, g[1], g[2], "T1") : g \in Geoms} \cup {Callback(ClipA)}

SeqsUpTo(S, n) == UNION {[1..k -> S] : k \in 0..n}

PrimLists == SeqsUpTo(Prims, MaxPrims)

ImageSizes == {<<2, 2>>}
ImageDelta(id, pos, size) == [id |-> id, pos |-> pos, width |-> size[1], height |-> size[2]]
ImageDeltas ==
    {ImageDelta(id, pos, sz) : id \in TexIds, pos \in {None, <<0, 0>>}, sz \in ImageSizes}
NoDelta == [set |-> <<>>, free |-> {}]
Deltas == {[set |-> s, free |-> f] : s \in SeqsUpTo(ImageDeltas, MaxDelta), f \in SUBSET TexIds}

WindowSizes == {<<0, 0>>, <<800, 600>>, <<DEFAULT_WIDTH, DEFAULT_HEIGHT>>}

SurfaceErrors == {"Lost", "Outdated", "Timeout", "OutOfMemory", "Other"}

\* the batch that creates texture T1
CreateT1 == {<<ImageDelta("T1", None, <<2, 2>>)>>}

----------------------------------------------------------------------------
(* buffer.rs *)

RECURSIVE SumCounts(_, _)
SumCounts(tris, field) ==
    IF tris = <<>> THEN 0
    ELSE (IF Head(tris).kind = "Mesh" THEN Head(tris)[field] ELSE 0)
         + SumCounts(Tail(tris), field)

measure_buffer_size(tris) ==
    <<SumCounts(tris, "nv") * VertexSize, SumCounts(tris, "ni") * IndexSize>>

\* a growth check that never replaces the buffer
GrowBuffer_Never(buffer, buffer_size) == buffer

\* a growth check with < for <=
GrowBuffer_Strict(buffer, buffer_size) ==
    IF buffer.size < buffer_size
    THEN [size |-> buffer_size * 2, gen |-> buffer.gen + 1]
    ELSE buffer

\* the growth check of send_vertex_buffer / send_index_buffer
GrowBuffer(buffer, buffer_size) ==
    IF buffer.size <= buffer_size
    THEN [size |-> buffer_size * 2, gen |-> buffer.gen + 1]
    ELSE buffer

\* a write loop that copies every mesh to the start of the buffer
RECURSIVE WriteRanges_FromStart(_, _, _, _, _)
WriteRanges_FromStart(tris, i, offset, field, unit) ==
    IF i > Len(tris) THEN <<>>
    ELSE IF tris[i].kind = "Mesh"
         THEN <<[prim |-> i, start |-> 0, end |-> tris[i][field] * unit]>>
              \o WriteRanges_FromStart(tris, i + 1, offset, field, unit)
         ELSE WriteRanges_FromStart(tris, i + 1, offset, field, unit)

\* the write loop of send_vertex_buffer / send_index_buffer: the byte range
\* each Mesh primitive's data is copied to
RECURSIVE WriteRanges(_, _, _, _, _)
WriteRanges(tris, i, offset, field, unit) ==
    IF i > Len(tris) THEN <<>>
    ELSE IF tris[i].kind = "Mesh"
         THEN LET start == offset
                  end == offset + tris[i][field] * unit
              IN  <<[prim |-> i, start |-> start, end |-> end]>>
                  \o WriteRanges(tris, i + 1, end, field, unit)
         ELSE WriteRanges(tris, i + 1, offset, field, unit)

----------------------------------------------------------------------------
(* texture.rs and release_textures: the texture cache *)

\* a texture holds, for every texel, the image data last written to it: the
\* kind and size of the image it came from and its place in that image
Pixels(w, h) == (0..(w - 1)) \X (0..(h - 1))

ImageTexel(img, i, j) ==
    <<IF img.pos = None THEN "full" ELSE "part", img.width, img.height, i, j>>

\* into_texture: a texture of the given extent, nothing written yet
into_texture(w, h) ==
    [width |-> w, height |-> h,
     texels |-> [p \in Pixels(w, h) |-> <<"none", 0, 0, 0, 0>>]]

\* wgpu's validation of a texture copy: the copy of an image of img's extent
\* at origin would overrun the extent of the texture
TextureOverrun(texture, img, origin) ==
    \/ origin[1] + img.width > texture.width
    \/ origin[2] + img.height > texture.height

\* a write that clips the image to the texture instead of refusing it
send_texture_image_internal_Clip(texture, img, origin) ==
    [texture EXCEPT !.texels =
        [p \in DOMAIN texture.texels |->
            IF /\ origin[1] <= p[1] /\ p[1] < origin[1] + img.width
               /\ origin[2] <= p[2] /\ p[2] < origin[2] + img.height
            THEN ImageTexel(img, p[1] - origin[1], p[2] - origin[2])
            ELSE texture.texels[p]]]

\* send_texture_image_internal: queue.write_texture of the whole image at
\* origin. There is no check of origin and size before the call: a copy that
\* overruns the texture is refused by wgpu's validation, which writes
\* nothing and raises an error (see write_texture_fails).
send_texture_image_internal(texture, img, origin) ==
    IF TextureOverrun(texture, img, origin) THEN texture
    ELSE [texture EXCEPT !.texels =
            [p \in DOMAIN texture.texels |->
                IF /\ origin[1] <= p[1] /\ p[1] < origin[1] + img.width
                   /\ origin[2] <= p[2] /\ p[2] < origin[2] + img.height
                THEN ImageTexel(img, p[1] - origin[1], p[2] - origin[2])
                ELSE texture.texels[p]]]

\* the patch pass over images on cache c makes a write_texture call that
\* wgpu refuses. No error scope and no uncaptured-error handler is set up, so
\* the error reaches wgpu's default handler, which panics. (A patch does not
\* change the extent of a texture, so the extents of c decide it.)
write_texture_fails(images, c) ==
    \E k \in 1..Len(images) :
        /\ images[k].pos # None
        /\ images[k].id \in DOMAIN c
        /\ TextureOverrun(c[images[k].id], images[k], images[k].pos)

\* a patch pass that gives up at the first delta it cannot apply
RECURSIVE send_texture_images_pos_Break(_, _)
send_texture_images_pos_Break(images, c) ==
    IF images = <<>> THEN c
    ELSE LET img == Head(images)
         IN  IF (img.pos # None) /\ (img.id \in DOMAIN c)
             THEN send_texture_images_pos_Break(Tail(images),
                      [c EXCEPT ![img.id] =
                          send_texture_image_internal(c[img.id], img, img.pos)])
             ELSE c

\* send_texture_images_pos: every delta with a position whose id is in the
\* cache is written into the cached texture; the others are passed over. The
\* pass ends at a write that wgpu refuses (the panic unwinds the loop).
RECURSIVE send_texture_images_pos(_, _)
send_texture_images_pos(images, c) ==
    IF images = <<>> THEN c
    ELSE LET img == Head(images)
         IN  IF (img.pos # None) /\ (img.id \in DOMAIN c)
             THEN LET c1 == [c EXCEPT ![img.id] =
                               send_texture_image_internal(c[img.id], img, img.pos)]
                  IN  IF TextureOverrun(c[img.id], img, img.pos) THEN c1
                      ELSE send_texture_images_pos(Tail(images), c1)
             ELSE send_texture_images_pos(Tail(images), c)

\* egui::TextureOptions: magnification, minification, wrap mode
TextureOptions(mag, min, wrap) ==
    [magnification |-> mag, minification |-> min, wrap_mode |-> wrap]

\* into_sampler: the sampler descriptor of the options. serial tells the
\* sampler objects the device has created apart.
into_sampler(options, serial) ==
    [address_mode |-> CASE options.wrap_mode = "ClampToEdge" -> "ClampToEdge"
                        [] options.wrap_mode = "Repeat" -> "Repeat"
                        [] options.wrap_mode = "MirroredRepeat" -> "MirrorRepeat",
     mag_filter |-> options.magnification,
     min_filter |-> options.minification,
     serial |-> serial]

\* the serial of the next sampler created for the map s
NextSerial(s) ==
    LET used == {s[k].serial : k \in DOMAIN s}
    IN  IF used = {} THEN 1
        ELSE 1 + (CHOOSE x \in used : \A y \in used : y <= x)

\* an update that creates a sampler for every options value it is given
RECURSIVE update_samplers_Replace(_, _)
update_samplers_Replace(texture_options, s) ==
    IF texture_options = <<>> THEN s
    ELSE LET options == Head(texture_options)
         IN  update_samplers_Replace(Tail(texture_options),
                 [k \in (DOMAIN s) \cup {options} |->
                     IF k = options THEN into_sampler(options, NextSerial(s))
                     ELSE s[k]])

\* update_samplers: a sampler is created and inserted for each options value
\* whose entry is vacant
RECURSIVE update_samplers(_, _)
update_samplers(texture_options, s) ==
    IF texture_options = <<>> THEN s
    ELSE LET options == Head(texture_options)
         IN  IF options \notin DOMAIN s
             THEN update_samplers(Tail(texture_options),
                      [k \in (DOMAIN s) \cup {options} |->
                          IF k = options THEN into_sampler(options, NextSerial(s))
                          ELSE s[k]])
             ELSE update_samplers(Tail(texture_options), s)

\* an insertion that keeps the entry an id already has
RECURSIVE InsertAll_KeepExisting(_, _)
InsertAll_KeepExisting(images, c) ==
    IF images = <<>> THEN c
    ELSE LET img == Head(images)
             c1 == IF (img.pos = None) /\ (img.id \notin DOMAIN c)
                   THEN [id \in (DOMAIN c) \cup {img.id} |->
                            IF id = img.id
                            THEN send_texture_image_internal(
                                     into_texture(img.width, img.height), img, <<0, 0>>)
                            ELSE c[id]]
                   ELSE c
         IN  InsertAll_KeepExisting(Tail(images), c1)

RECURSIVE InsertAll(_, _)
\* update_bind_groups over the textures send_texture_images_new yields: one
\* entry per delta without a position, a new texture holding the delta's
\* image, inserted in sequence order
InsertAll(images, c) ==
    IF images = <<>> THEN c
    ELSE LET img == Head(images)
             c1 == IF img.pos = None
                   THEN [id \in (DOMAIN c) \cup {img.id} |->
                            IF id = img.id
                            THEN send_texture_image_internal(
                                     into_texture(img.width, img.height), img, <<0, 0>>)
                            ELSE c[id]]
                   ELSE c
         IN  InsertAll(Tail(images), c1)

\* an eviction that stops after the first id
RemoveAll_FirstOnly(ids, c) ==
    IF ids = {} THEN c
    ELSE [id \in (DOMAIN c) \ {CHOOSE x \in ids : TRUE} |-> c[id]]

RemoveAll(ids, c) == [id \in (DOMAIN c) \ ids |-> c[id]]

----------------------------------------------------------------------------
(* Commands recorded into the encoder *)

NoRange == <<0, 0>>

BgPass == [op |-> "bg_pass", prim |-> 0, scissor |-> None,
           vrange |-> NoRange, irange |-> NoRange, bind |-> "none"]
FgPass == [op |-> "fg_pass", prim |-> 0, scissor |-> None,
           vrange |-> NoRange, irange |-> NoRange, bind |-> "none"]
Draw(i, sc, vr, ir, bg) == [op |-> "draw", prim |-> i, scissor |-> sc,
                            vrange |-> vr, irange |-> ir, bind |-> bg]

Idle == pc = "idle"

Init ==
    /\ window = [size |-> <<DEFAULT_WIDTH, DEFAULT_HEIGHT>>, minimized |-> FALSE]
    /\ redraw_requested = TRUE
    /\ surface = "Good"
    /\ config = <<DEFAULT_WIDTH, DEFAULT_HEIGHT>>
    /\ vertex_buffer = [size |-> VertexSize * InitVertexCount, gen |-> 0]
    /\ index_buffer = [size |-> IndexSize * InitIndexCount, gen |-> 0]
    /\ cache = [id \in {} |-> None]
    /\ samplers = [options \in {} |-> None]
    /\ pc = "idle"
    /\ triangles = <<>>
    /\ textures_delta = NoDelta
    /\ screen = [pixel_per_point |-> Fix(1), screen_width |-> DEFAULT_WIDTH,
                 screen_height |-> DEFAULT_HEIGHT]
    /\ encoder = <<>>
    /\ vstaged = <<>>
    /\ istaged = <<>>
    /\ fg = [i |-> 0, voffset |-> 0, ioffset |-> 0]
    /\ submitted = <<>>
    /\ presented = 0
    /\ result = "none"
    /\ events = <<>>

frame_vars == <<triangles, textures_delta, screen, encoder, vstaged, istaged, fg,
                submitted, presented, result, events>>
gpu_vars == <<vertex_buffer, index_buffer, cache, samplers>>

----------------------------------------------------------------------------
(* The window system *)

\* the window is minimized or restored
WindowMinimized(m) ==
    /\ Idle
    /\ window.minimized # m
    /\ window' = [window EXCEPT !.minimized = m]
    /\ UNCHANGED <<redraw_requested, surface, config, pc>>
    /\ UNCHANGED gpu_vars
    /\ UNCHANGED frame_vars

\* the window system asks for a repaint
OsRedrawRequest ==
    /\ Idle
    /\ ~redraw_requested
    /\ redraw_requested' = TRUE
    /\ UNCHANGED <<window, surface, config, pc>>
    /\ UNCHANGED gpu_vars
    /\ UNCHANGED frame_vars

\* the surface becomes lost, outdated, ... or recovers, between two ticks
SurfaceEvent(s) ==
    /\ Idle
    /\ surface # s
    /\ surface' = s
    /\ UNCHANGED <<window, redraw_requested, config, pc>>
    /\ UNCHANGED gpu_vars
    /\ UNCHANGED frame_vars

----------------------------------------------------------------------------
(* WgpuRenderer *)

\* request_resize: the new <<config, surface>>
request_resize(width, height) == <<<<width, height>>, "Good">>

\* request_rescale(&screen): re-applies the surface configuration
request_rescale(scr) == request_resize(scr.screen_width, scr.screen_height)

\* App::handle_resize on WindowEvent::Resized(size)
HandleResize(size) ==
    /\ Idle
    /\ window' = [window EXCEPT !.size = size]
    /\ IF (size[1] > 0) /\ (size[2] > 0)
       THEN /\ config' = request_resize(size[1], size[2])[1]
            /\ surface' = request_resize(size[1], size[2])[2]
       ELSE UNCHANGED <<config, surface>>
    /\ UNCHANGED <<redraw_requested, pc>>
    /\ UNCHANGED gpu_vars
    /\ UNCHANGED frame_vars

\* The texture functions have no caller in render: each is a call of its own,
\* made between two ticks. Its argument stays in textures_delta, and pc names
\* the function, until the call returns.
TextureCalls ==
    {"send_texture_images_pos", "update_bind_groups", "release_textures",
     "send_texture", "update_samplers"}

\* texture.rs: update_samplers; the call's iterator of options is kept in
\* the field options of textures_delta
UpdateSamplers(texture_options) ==
    /\ Idle
    /\ samplers' = update_samplers(texture_options, samplers)
    /\ textures_delta' = [set |-> <<>>, free |-> {}, options |-> texture_options]
    /\ pc' = "update_samplers"
    /\ UNCHANGED <<window, redraw_requested, surface, config,
                   vertex_buffer, index_buffer, cache>>
    /\ UNCHANGED <<triangles, screen, encoder, vstaged, istaged, fg, submitted,
                   presented, result, events>>

\* texture.rs: send_texture_images_pos
SendTextureImagesPos(images) ==
    /\ Idle
    /\ cache' = send_texture_images_pos(images, cache)
    /\ textures_delta' = [set |-> images, free |-> {}]
    /\ pc' = IF write_texture_fails(images, cache) THEN "panicked"
             ELSE "send_texture_images_pos"
    /\ UNCHANGED <<window, redraw_requested, surface, config,
                   vertex_buffer, index_buffer, samplers>>
    /\ UNCHANGED <<triangles, screen, encoder, vstaged, istaged, fg, submitted,
                   presented, result, events>>

\* texture.rs: send_texture_images_new piped into update_bind_groups
UpdateBindGroups(images) ==
    /\ Idle
    /\ cache' = InsertAll(images, cache)
    /\ textures_delta' = [set |-> images, free |-> {}]
    /\ pc' = "update_bind_groups"
    /\ UNCHANGED <<window, redraw_requested, surface, config,
                   vertex_buffer, index_buffer, samplers>>
    /\ UNCHANGED <<triangles, screen, encoder, vstaged, istaged, fg, submitted,
                   presented, result, events>>

\* buffer.rs: release_textures
ReleaseTextures(ids) ==
    /\ Idle
    /\ cache' = RemoveAll(ids, cache)
    /\ textures_delta' = [set |-> <<>>, free |-> ids]
    /\ pc' = "release_textures"
    /\ UNCHANGED <<window, redraw_requested, surface, config,
                   vertex_buffer, index_buffer, samplers>>
    /\ UNCHANGED <<triangles, screen, encoder, vstaged, istaged, fg, submitted,
                   presented, result, events>>

\* buffer::send_texture, the application of the 'set' half of a delta batch:
\* the patch pass and the new-texture pass over the batch, in either order
SendTexture(images, pos_first) ==
    /\ Idle
    /\ cache' = IF pos_first
                THEN IF write_texture_fails(images, cache)
                     THEN send_texture_images_pos(images, cache)
                     ELSE InsertAll(images, send_texture_images_pos(images, cache))
                ELSE send_texture_images_pos(images, InsertAll(images, cache))
    /\ textures_delta' = [set |-> images, free |-> {}]
    /\ pc' = IF write_texture_fails(images,
                     IF pos_first THEN cache ELSE InsertAll(images, cache))
             THEN "panicked"
             ELSE "send_texture"
    /\ UNCHANGED <<window, redraw_requested, surface, config,
                   vertex_buffer, index_buffer, samplers>>
    /\ UNCHANGED <<triangles, screen, encoder, vstaged, istaged, fg, submitted,
                   presented, result, events>>

\* a texture function returns
TextureReturn ==
    /\ pc \in TextureCalls
    /\ pc' = "idle"
    /\ textures_delta' = NoDelta
    /\ UNCHANGED <<window, redraw_requested, surface, config>>
    /\ UNCHANGED gpu_vars
    /\ UNCHANGED <<triangles, screen, encoder, vstaged, istaged, fg, submitted,
                   presented, result, events>>

----------------------------------------------------------------------------
(* App::handle_redraw and WgpuRenderer::render, step by step *)

Log(e) == events' = Append(events, e)

\* handle_redraw up to the call of render: the minimized check, update and
\* tessellate (the inputs), request_redraw, the screen descriptor, rescale
HandleRedraw(tris, delta, ppp, scale_changed) ==
    /\ Idle
    /\ redraw_requested
    /\ IF window.minimized
       THEN /\ redraw_requested' = FALSE
            /\ events' = <<"skip">>
            /\ UNCHANGED <<pc, triangles, textures_delta, screen, config, surface>>
       ELSE LET scr == [pixel_per_point |-> ppp, screen_width |-> window.size[1],
                        screen_height |-> window.size[2]]
            IN  /\ redraw_requested' = TRUE
                /\ triangles' = tris
                /\ textures_delta' = delta
                /\ screen' = scr
                /\ IF scale_changed
                   THEN /\ config' = request_rescale(scr)[1]
                        /\ surface' = request_rescale(scr)[2]
                        /\ events' = <<"request_redraw", "configure">>
                   ELSE /\ UNCHANGED <<config, surface>>
                        /\ events' = <<"request_redraw">>
                /\ pc' = "render"
    /\ result' = "none"
    /\ UNCHANGED <<window, encoder, vstaged, istaged, fg, submitted, presented>>
    /\ UNCHANGED gpu_vars

\* render: create_command_encoder, then surface.get_current_texture()?
RenderAcquire ==
    /\ pc = "render"
    /\ encoder' = <<>>
    /\ IF surface = "Good"
       THEN /\ pc' = "encode_bg"
            /\ Log("acquire")
            /\ UNCHANGED result
       ELSE /\ pc' = "match"
            /\ result' = surface
            /\ Log("render_err")
    /\ UNCHANGED <<window, redraw_requested, surface, config, triangles,
                   textures_delta, screen, vstaged, istaged, fg, submitted, presented>>
    /\ UNCHANGED gpu_vars

\* an encode_bg that records no pass for a frame without primitives
EncodeBg_SkipWhenEmpty ==
    /\ pc = "encode_bg"
    /\ encoder' = IF triangles = <<>> THEN encoder ELSE Append(encoder, BgPass)
    /\ Log("bg_pass")
    /\ pc' = "stage"
    /\ UNCHANGED <<window, redraw_requested, surface, config, triangles,
                   textures_delta, screen, vstaged, istaged, fg, submitted,
                   presented, result>>
    /\ UNCHANGED gpu_vars

\* encode_bg
EncodeBg ==
    /\ pc = "encode_bg"
    /\ encoder' = Append(encoder, BgPass)
    /\ Log("bg_pass")
    /\ pc' = "stage"
    /\ UNCHANGED <<window, redraw_requested, surface, config, triangles,
                   textures_delta, screen, vstaged, istaged, fg, submitted,
                   presented, result>>
    /\ UNCHANGED gpu_vars

\* measure_buffer_size, the (vbuffer_size > 0) && (ibuffer_size > 0) check and
\* send_vertex_buffer
SendVertexBuffer ==
    /\ pc = "stage"
    /\ LET sizes == measure_buffer_size(triangles)
       IN  IF (sizes[1] > 0) /\ (sizes[2] > 0)
           THEN /\ vertex_buffer' = GrowBuffer(vertex_buffer, sizes[1])
                /\ vstaged' = WriteRanges(triangles, 1, 0, "nv", VertexSize)
                /\ Log("send_vertex_buffer")
                /\ pc' = "send_index"
           ELSE /\ pc' = "submit"
                /\ UNCHANGED <<vertex_buffer, vstaged, events>>
    /\ UNCHANGED <<window, redraw_requested, surface, config, triangles,
                   textures_delta, screen, encoder, istaged, fg, submitted,
                   presented, result, index_buffer, cache, samplers>>

\* send_index_buffer
SendIndexBuffer ==
    /\ pc = "send_index"
    /\ index_buffer' = GrowBuffer(index_buffer, measure_buffer_size(triangles)[2])
    /\ istaged' = WriteRanges(triangles, 1, 0, "ni", IndexSize)
    /\ Log("send_index_buffer")
    /\ pc' = "encode_fg"
    /\ UNCHANGED <<window, redraw_requested, surface, config, triangles,
                   textures_delta, screen, encoder, vstaged, fg, submitted,
                   presented, result, vertex_buffer, cache, samplers>>

\* encode_fg up to its loop: begin_render_pass, set_pipeline, the offsets,
\* set_bind_group(0, bind_group_fallback)
EncodeFgBegin ==
    /\ pc = "encode_fg"
    /\ encoder' = Append(encoder, FgPass)
    /\ fg' = [i |-> 1, voffset |-> 0, ioffset |-> 0]
    /\ Log("fg_pass")
    /\ pc' = "fg_loop"
    /\ UNCHANGED <<window, redraw_requested, surface, config, triangles,
                   textures_delta, screen, vstaged, istaged, submitted,
                   presented, result>>
    /\ UNCHANGED gpu_vars

\* the bind group in effect for a draw of primitive p
BoundGroup(p) == "fallback"

\* wgpu::Buffer::slice(start..end) panics on an empty range ("buffer slices
\* can not be empty"): whether vertex_buffer.slice(vrange) and
\* index_buffer.slice(irange) both return
SlicesOk(vrange, irange) == (vrange[1] < vrange[2]) /\ (irange[1] < irange[2])

\* an iteration that records its draw ahead of the draws recorded so far
FgIteration_Prepend(i) ==
    LET p == triangles[i]
        sc == to_scissor_rect(p.clip_rect, screen)
    IN  IF sc = None
        THEN /\ fg' = [fg EXCEPT !.i = i + 1]
             /\ UNCHANGED <<encoder, events, pc>>
        ELSE IF p.kind = "Mesh"
                /\ SlicesOk(<<fg.voffset, fg.voffset + p.nv * VertexSize>>,
                            <<fg.ioffset, fg.ioffset + p.ni * IndexSize>>)
        THEN LET vend == fg.voffset + p.nv * VertexSize
                 iend == fg.ioffset + p.ni * IndexSize
             IN  /\ encoder' = SubSeq(encoder, 1, 2)
                        \o <<Draw(i, sc, <<fg.voffset, vend>>, <<fg.ioffset, iend>>,
                                  BoundGroup(p))>>
                        \o SubSeq(encoder, 3, Len(encoder))
                 /\ fg' = [i |-> i + 1, voffset |-> vend, ioffset |-> iend]
                 /\ Log("draw")
                 /\ UNCHANGED pc
        ELSE /\ pc' = "panicked"
             /\ Log("panic")
             /\ UNCHANGED <<encoder, fg>>

\* what one iteration of encode_fg's loop does with primitive i: skip it, draw
\* it, or panic (on a Callback, or on slicing an empty range for a Mesh)
FgIteration(i) ==
    LET p == triangles[i]
        sc == to_scissor_rect(p.clip_rect, screen)
    IN  IF sc = None
        THEN /\ fg' = [fg EXCEPT !.i = i + 1]
             /\ UNCHANGED <<encoder, events, pc>>
        ELSE IF p.kind = "Mesh"
                /\ SlicesOk(<<fg.voffset, fg.voffset + p.nv * VertexSize>>,
                            <<fg.ioffset, fg.ioffset + p.ni * IndexSize>>)
        THEN LET vend == fg.voffset + p.nv * VertexSize
                 iend == fg.ioffset + p.ni * IndexSize
             IN  /\ encoder' = Append(encoder,
                        Draw(i, sc, <<fg.voffset, vend>>, <<fg.ioffset, iend>>,
                             BoundGroup(p)))
                 /\ fg' = [i |-> i + 1, voffset |-> vend, ioffset |-> iend]
                 /\ Log("draw")
                 /\ UNCHANGED pc
        ELSE /\ pc' = "panicked"
             /\ Log("panic")
             /\ UNCHANGED <<encoder, fg>>

\* one iteration of the loop of encode_fg, or its end
EncodeFgStep ==
    /\ pc = "fg_loop"
    /\ IF fg.i > Len(triangles)
       THEN /\ pc' = "submit"
            /\ UNCHANGED <<encoder, fg, events>>
       ELSE FgIteration(fg.i)
    /\ UNCHANGED <<window, redraw_requested, surface, config, triangles,
                   textures_delta, screen, vstaged, istaged, submitted,
                   presented, result>>
    /\ UNCHANGED gpu_vars

\* a submit that hands every recorded pass to the queue as a command buffer of
\* its own
Submit_PerPass ==
    /\ pc = "submit"
    /\ submitted' = submitted \o [k \in 1..Len(encoder) |-> <<encoder[k]>>]
    /\ Log("submit")
    /\ pc' = "present"
    /\ UNCHANGED <<window, redraw_requested, surface, config, triangles,
                   textures_delta, screen, encoder, vstaged, istaged, fg,
                   presented, result>>
    /\ UNCHANGED gpu_vars

\* queue.submit(once(encoder.finish()))
Submit ==
    /\ pc = "submit"
    /\ submitted' = Append(submitted, encoder)
    /\ Log("submit")
    /\ pc' = "present"
    /\ UNCHANGED <<window, redraw_requested, surface, config, triangles,
                   textures_delta, screen, encoder, vstaged, istaged, fg,
                   presented, result>>
    /\ UNCHANGED gpu_vars

\* texture.present(); Ok(())
Present ==
    /\ pc = "present"
    /\ presented' = presented + 1
    /\ result' = "Ok"
    /\ Log("present")
    /\ pc' = "match"
    /\ UNCHANGED <<window, redraw_requested, surface, config, triangles,
                   textures_delta, screen, encoder, vstaged, istaged, fg,
                   submitted>>
    /\ UNCHANGED gpu_vars

\* a match that only reports, whatever the error
MatchResult_ReportOnly ==
    /\ pc = "match"
    /\ IF result = "Ok"
       THEN UNCHANGED <<config, surface, events>>
       ELSE /\ Log("log_error")
            /\ UNCHANGED <<config, surface>>
    /\ pc' = "end"
    /\ UNCHANGED <<window, redraw_requested, triangles, textures_delta, screen,
                   encoder, vstaged, istaged, fg, submitted, presented, result>>
    /\ UNCHANGED gpu_vars

\* a match that asks for one more redraw after it reconfigured the surface
MatchResult_RequestAgain ==
    /\ pc = "match"
    /\ IF result = "Ok"
       THEN UNCHANGED <<config, surface, events>>
       ELSE IF result \in {"Lost", "Outdated"}
       THEN /\ config' = request_resize(screen.screen_width, screen.screen_height)[1]
            /\ surface' = request_resize(screen.screen_width, screen.screen_height)[2]
            /\ events' = events \o <<"configure", "request_redraw">>
       ELSE /\ Log("log_error")
            /\ UNCHANGED <<config, surface>>
    /\ pc' = "end"
    /\ UNCHANGED <<window, redraw_requested, triangles, textures_delta, screen,
                   encoder, vstaged, istaged, fg, submitted, presented, result>>
    /\ UNCHANGED gpu_vars

\* handle_redraw: the match on what render returned
MatchResult ==
    /\ pc = "match"
    /\ IF result = "Ok"
       THEN UNCHANGED <<config, surface, events>>
       ELSE IF result \in {"Lost", "Outdated"}
       THEN /\ config' = request_resize(screen.screen_width, screen.screen_height)[1]
            /\ surface' = request_resize(screen.screen_width, screen.screen_height)[2]
            /\ Log("configure")
       ELSE /\ Log("log_error")
            /\ UNCHANGED <<config, surface>>
    /\ pc' = "end"
    /\ UNCHANGED <<window, redraw_requested, triangles, textures_delta, screen,
                   encoder, vstaged, istaged, fg, submitted, presented, result>>
    /\ UNCHANGED gpu_vars

\* handle_redraw returns: the frame's locals are dropped
EndTick ==
    /\ pc = "end"
    /\ pc' = "idle"
    /\ triangles' = <<>>
    /\ textures_delta' = NoDelta
    /\ encoder' = <<>>
    /\ vstaged' = <<>>
    /\ istaged' = <<>>
    /\ fg' = [i |-> 0, voffset |-> 0, ioffset |-> 0]
    /\ submitted' = <<>>
    /\ presented' = 0
    /\ result' = "none"
    /\ events' = <<>>
    /\ UNCHANGED <<window, redraw_requested, surface, config, screen>>
    /\ UNCHANGED gpu_vars

----------------------------------------------------------------------------
(* The next-state relation over given input domains: the primitive lists, the
   texture deltas and the scale changes a tick may see, the pixels per point,
   the sizes the window may take, the states the surface may get into, the
   texture ids that are released, the batches the texture functions are
   called with and the options update_samplers is called with *)
NextOver(lists, deltas, scales, ppps, sizes, surfaces, ids, batches, options) ==
    \/ \E m \in BOOLEAN : WindowMinimized(m)
    \/ OsRedrawRequest
    \/ \E s \in surfaces : SurfaceEvent(s)
    \/ \E size \in sizes : HandleResize(size)
    \/ \E images \in batches : SendTextureImagesPos(images)
    \/ \E images \in batches : UpdateBindGroups(images)
    \/ \E free \in SUBSET ids : ReleaseTextures(free)
    \/ \E images \in batches, pos_first \in BOOLEAN : SendTexture(images, pos_first)
    \/ \E texture_options \in options : UpdateSamplers(texture_options)
    \/ TextureReturn
    \/ \E tris \in lists, delta \in deltas, ppp \in ppps, sc \in scales :
          HandleRedraw(tris, delta, ppp, sc)
    \/ RenderAcquire
    \/ EncodeBg
    \/ SendVertexBuffer
    \/ SendIndexBuffer
    \/ EncodeFgBegin
    \/ EncodeFgStep
    \/ Submit
    \/ Present
    \/ MatchResult
    \/ EndTick

\* The renderer: every primitive list, in a window of the default size
Next ==
    NextOver(PrimLists, {NoDelta}, {FALSE}, {Fix(2)},
             {<<DEFAULT_WIDTH, DEFAULT_HEIGHT>>}, {"Good", "Lost"}, {"T1"},
             CreateT1, {<<>>})

Spec == Init /\ [][Next]_vars

\* The geometry buffers: primitive lists of every size
NextBuffers ==
    NextOver(SeqsUpTo(BufferPrims, MaxPrims), {NoDelta}, {FALSE}, {Fix(2)},
             {<<DEFAULT_WIDTH, DEFAULT_HEIGHT>>}, {"Good", "Lost"}, {"T1"},
             CreateT1, {<<>>})

SpecBuffers == Init /\ [][NextBuffers]_vars

\* The application: every window size, surface error, texture delta and scale
\* change, over short primitive lists
AppPrims == {Mesh(ClipA, 1, 3, "T1"), Callback(ClipA)}

\* no primitive, one primitive, or a mesh followed by a callback
AppLists ==
    SeqsUpTo(AppPrims, 1) \cup {<<Mesh(ClipA, 1, 3, "T1"), Callback(ClipA)>>}

NextApp ==
    NextOver(AppLists, Deltas, BOOLEAN, {Fix(2)},
             WindowSizes, SurfaceErrors \cup {"Good"}, TexIds, CreateT1, {<<>>})

SpecApp == Init /\ [][NextApp]_vars

\* The scissor mapping: one mesh per tick, over clip rects with edges left
\* of, on, inside and right of the screen, inverted ones and fractional ones,
\* at 1, 1.5 and 2 pixels per point
XEdges == {Fix(0 - 5), Fix(0), Fix(10), Fix(10) + 1, Fix(50), Fix(900)}
YEdges == {Fix(10), Fix(50), Fix(700)}
ScissorClips ==
    {[left |-> l, top |-> t, right |-> r, bottom |-> b] :
        l \in XEdges, r \in XEdges, t \in YEdges, b \in YEdges}
ScissorPpps == {Fix(1), Fix(1) + 2, Fix(2)}

NextScissor ==
    NextOver({<<Mesh(c, 1, 3, "T1")>> : c \in ScissorClips}, {NoDelta}, {FALSE},
             ScissorPpps, {<<0, 0>>, <<800, 600>>}, {"Good", "Lost"}, {"T1"},
             CreateT1, {<<>>})

SpecScissor == Init /\ [][NextScissor]_vars

\* The texture cache: batches of new textures of two sizes and of one-texel
\* patches of their top-left texel, for two texture ids
TextureSizes == {<<2, 2>>, <<3, 3>>}
TextureDeltas ==
    {ImageDelta(id, None, sz) : id \in TexIds, sz \in TextureSizes}
    \cup {ImageDelta(id, <<0, 0>>, <<1, 1>>) : id \in TexIds}
TextureBatches == SeqsUpTo(TextureDeltas, MaxBatch)

NextTextures ==
    NextOver(SeqsUpTo({Mesh(ClipA, 1, 3, "T1")}, 1), {NoDelta}, {FALSE}, {Fix(2)},
             {<<DEFAULT_WIDTH, DEFAULT_HEIGHT>>}, {"Good", "Lost"}, TexIds,
             TextureBatches, {<<>>})

SpecTextures == Init /\ [][NextTextures]_vars

\* The texture functions on one texture, with a patch that lies inside a 3x3
\* texture and overruns a 2x2 texture.
OverrunDeltas ==
    {ImageDelta("T1", None, sz) : sz \in TextureSizes}
    \cup {ImageDelta("T1", <<0, 0>>, <<1, 1>>), ImageDelta("T1", <<1, 1>>, <<2, 2>>)}
OverrunBatches == SeqsUpTo(OverrunDeltas, MaxBatch)

NextOverrun ==
    NextOver(SeqsUpTo({Mesh(ClipA, 1, 3, "T1")}, 1), {NoDelta}, {FALSE}, {Fix(2)},
             {<<DEFAULT_WIDTH, DEFAULT_HEIGHT>>}, {"Good", "Lost"}, {"T1"},
             OverrunBatches, {<<>>})

SpecOverrun == Init /\ [][NextOverrun]_vars

\* The sampler cache: update_samplers over sequences of three options values
SamplerKeys ==
    {TextureOptions("Nearest", "Nearest", "ClampToEdge"),
     TextureOptions("Linear", "Linear", "ClampToEdge"),
     TextureOptions("Linear", "Nearest", "MirroredRepeat")}
SamplerBatches == SeqsUpTo(SamplerKeys, MaxBatch)

NextSamplers ==
    NextOver(SeqsUpTo({Mesh(ClipA, 1, 3, "T1")}, 1), {NoDelta}, {FALSE}, {Fix(2)},
             {<<DEFAULT_WIDTH, DEFAULT_HEIGHT>>}, {"Good", "Lost"}, {"T1"},
             CreateT1, SamplerBatches)

SpecSamplers == Init /\ [][NextSamplers]_vars

----------------------------------------------------------------------------
(* Properties *)

Draws == {k \in 1..Len(encoder) : encoder[k].op = "draw"}

RenderReturned == pc \in {"match", "end"}

HasCallback(tris) == \E i \in 1..Len(tris) : tris[i].kind = "Callback"

\* two byte ranges <<start, end>> hold the same bytes
SameBytes(a, b) == (a[1] >= a[2] /\ b[1] >= b[2]) \/ a = b

\* C1: every Mesh primitive drawn in the foreground pass is drawn with exactly
\* the vertex byte range and the index byte range that send_vertex_buffer and
\* send_index_buffer wrote that primitive's data to, also after a primitive
\* that was skipped for its empty scissor rect.
C1_DrawUsesStagedRanges ==
    \A k \in Draws :
        /\ \E s \in 1..Len(vstaged) :
              /\ vstaged[s].prim = encoder[k].prim
              /\ SameBytes(encoder[k].vrange, <<vstaged[s].start, vstaged[s].end>>)
        /\ \E s \in 1..Len(istaged) :
              /\ istaged[s].prim = encoder[k].prim
              /\ SameBytes(encoder[k].irange, <<istaged[s].start, istaged[s].end>>)

\* C2: a frame whose primitive list holds a Callback ends in a reported, named
\* failure: render neither panics nor returns Ok, whatever the other
\* primitives and whatever the Callback's clip rect.
C2_CallbackFailsNamed ==
    HasCallback(triangles) =>
        /\ pc # "panicked"
        /\ RenderReturned => result # "Ok"

\* C3: the texture resource bound for a draw is the cache entry of the
\* primitive's texture id when the cache holds that id, and the fallback
\* resource when it does not.
C3_DrawBindsCachedTexture ==
    \A k \in Draws :
        LET id == triangles[encoder[k].prim].texture_id
        IN  encoder[k].bind = IF id \in DOMAIN cache THEN id ELSE "fallback"

Staged == vstaged # <<>>

\* C5: after a staging call with required size r the buffer's capacity is at
\* least r, and no step ever lowers the capacity of a buffer.
C5_CapacityCoversAndGrows ==
    /\ [](/\ Staged => vertex_buffer.size >= measure_buffer_size(triangles)[1]
          /\ istaged # <<>> => index_buffer.size >= measure_buffer_size(triangles)[2])
    /\ [][/\ vertex_buffer'.size >= vertex_buffer.size
          /\ index_buffer'.size >= index_buffer.size]_vars

C5_Witness ==
    /\ pc = "encode_fg"
    /\ vertex_buffer.gen > 0
    /\ vertex_buffer.size = 2 * measure_buffer_size(triangles)[1]
    /\ index_buffer.gen > 0

\* C6: a staging call with required size r replaces the buffer by a new one of
\* capacity exactly 2 * r when the current capacity is <= r and keeps the
\* buffer as it is otherwise; send_vertex_buffer leaves the index buffer alone
\* and send_index_buffer the vertex buffer.
C6_GrowthPolicy ==
    [][/\ (pc = "stage" /\ pc' = "send_index") =>
            LET r == measure_buffer_size(triangles)[1]
            IN  /\ vertex_buffer.size <= r =>
                       /\ vertex_buffer'.size = 2 * r
                       /\ vertex_buffer'.gen # vertex_buffer.gen
                /\ vertex_buffer.size > r => vertex_buffer' = vertex_buffer
                /\ index_buffer' = index_buffer
       /\ (pc = "send_index" /\ pc' = "encode_fg") =>
            LET r == measure_buffer_size(triangles)[2]
            IN  /\ index_buffer.size <= r =>
                       /\ index_buffer'.size = 2 * r
                       /\ index_buffer'.gen # index_buffer.gen
                /\ index_buffer.size > r => index_buffer' = index_buffer
                /\ vertex_buffer' = vertex_buffer]_vars

\* the capacity equalled the required size, the vertex buffer was replaced
\* and the index buffer kept
C6_Witness ==
    /\ pc = "encode_fg"
    /\ measure_buffer_size(triangles)[1] = VertexSize * InitVertexCount
    /\ vertex_buffer = [size |-> 2 * VertexSize * InitVertexCount, gen |-> 1]
    /\ index_buffer.gen = 0

RECURSIVE DrawPrims(_)
DrawPrims(cmds) ==
    IF cmds = <<>> THEN <<>>
    ELSE (IF Head(cmds).op = "draw" THEN <<Head(cmds).prim>> ELSE <<>>)
         \o DrawPrims(Tail(cmds))

NotSkipped(i) ==
    /\ triangles[i].kind = "Mesh"
    /\ to_scissor_rect(triangles[i].clip_rect, screen) # None

RECURSIVE NotSkippedUpTo(_, _)
NotSkippedUpTo(i, n) ==
    IF i > n THEN <<>>
    ELSE (IF NotSkipped(i) THEN <<i>> ELSE <<>>) \o NotSkippedUpTo(i + 1, n)

Covers(sc, px) ==
    /\ sc[1] <= px[1] /\ px[1] < sc[1] + sc[3]
    /\ sc[2] <= px[2] /\ px[2] < sc[2] + sc[4]

SetMax(S) == CHOOSE x \in S : \A y \in S : y <= x

SamplePixels == {<<30, 30>>, <<70, 70>>, <<120, 120>>}

\* the draws of a command buffer that write pixel px
Writers(cmds, px) ==
    {k \in 1..Len(cmds) : cmds[k].op = "draw" /\ Covers(cmds[k].scissor, px)}

\* C8: the foreground pass records the draws of the primitives it does not
\* skip in the order of the input sequence, each once, the submitted command
\* buffer keeps that order, and so the last draw to write a pixel is the draw
\* of the last primitive of the input that covers it.
C8_DrawOrder ==
    /\ DrawPrims(encoder) = IF fg.i >= 1 THEN NotSkippedUpTo(1, fg.i - 1) ELSE <<>>
    /\ submitted # <<>> =>
          /\ submitted = <<encoder>>
          /\ \A px \in SamplePixels :
                LET ws == Writers(submitted[1], px)
                IN  ws # {} =>
                      submitted[1][SetMax(ws)].prim
                          = SetMax({submitted[1][k].prim : k \in ws})

\* two overlapping primitives were drawn and submitted
C8_Witness ==
    /\ submitted # <<>>
    /\ Cardinality(Writers(submitted[1], <<70, 70>>)) = 2

Min(a, b) == IF a <= b THEN a ELSE b
Max(a, b) == IF a >= b THEN a ELSE b

\* an edge of a clip rect in pixels, brought into [0, limit]
PixelEdge(e, limit) == Min(Max(RoundProduct(e, screen.pixel_per_point), 0), limit)

\* the clip rect of primitive i in pixels, cut to the screen: <<x, y, w, h>>
ClampedRect(i) ==
    LET c == triangles[i].clip_rect
        x == PixelEdge(c.left, screen.screen_width)
        y == PixelEdge(c.top, screen.screen_height)
    IN  <<x, y, Max(PixelEdge(c.right, screen.screen_width) - x, 0),
                Max(PixelEdge(c.bottom, screen.screen_height) - y, 0)>>

\* the clip rect of primitive i has no point inside the screen
OutsideScreen(i) ==
    LET c == triangles[i].clip_rect
        one == Fix(1) * Fix(1)
    IN  /\ c.left <= c.right /\ c.top <= c.bottom
        /\ \/ c.left * screen.pixel_per_point >= screen.screen_width * one
           \/ c.right * screen.pixel_per_point <= 0
           \/ c.top * screen.pixel_per_point >= screen.screen_height * one
           \/ c.bottom * screen.pixel_per_point <= 0

DrawsOf(i) == {k \in Draws : encoder[k].prim = i}

\* C7: the scissor rect of a primitive is its clip rect with the four edges
\* scaled by pixels_per_point and clamped to the screen, as (x, y, width,
\* height); (10,10)-(50,50) at 2 pixels per point on 800x600 gives
\* (20,20,80,80); there is no rect exactly when the clamped width or height is
\* zero, as for every clip rect outside the screen, and the primitive is then
\* not drawn.
C7_ScissorMapping ==
    /\ to_scissor_rect(Rect(10, 10, 50, 50),
                       [pixel_per_point |-> Fix(2), screen_width |-> 800,
                        screen_height |-> 600]) = <<20, 20, 80, 80>>
    /\ \A i \in 1..Len(triangles) :
          (fg.i > i /\ triangles[i].kind = "Mesh") =>
              LET r == ClampedRect(i)
              IN  /\ (r[3] # 0 /\ r[4] # 0) =>
                        /\ DrawsOf(i) # {}
                        /\ \A k \in DrawsOf(i) : encoder[k].scissor = r
                  /\ (r[3] = 0 \/ r[4] = 0) => DrawsOf(i) = {}
                  /\ OutsideScreen(i) => DrawsOf(i) = {}

\* the worked example was drawn
C7_Witness ==
    /\ pc = "submit"
    /\ screen = [pixel_per_point |-> Fix(2), screen_width |-> 800, screen_height |-> 600]
    /\ triangles[1].clip_rect = Rect(10, 10, 50, 50)
    /\ \E k \in Draws : encoder[k].scissor = <<20, 20, 80, 80>>

\* C4: when the first foreground draw of a frame is encoded, every delta of
\* that frame has been applied to the texture cache: every new texture of
\* 'set' is in the cache and no id of 'free' is.
C4_DeltasAppliedBeforeDraw ==
    Draws # {} =>
        /\ \A k \in 1..Len(textures_delta.set) :
              LET d == textures_delta.set[k]
              IN  (d.pos = None /\ d.id \notin textures_delta.free) =>
                      /\ d.id \in DOMAIN cache
                      /\ cache[d.id].width = d.width
                      /\ cache[d.id].height = d.height
        /\ \A id \in textures_delta.free : id \notin DOMAIN cache

\* C9: with a surface configured at a size > 0, render on an empty primitive
\* list succeeds, records exactly one background pass and no foreground pass
\* or draw, writes to neither geometry buffer, and submits and presents once.
C9_EmptyFrame ==
    /\ []((/\ pc = "match"
           /\ triangles = <<>>
           /\ surface = "Good"
           /\ config[1] > 0 /\ config[2] > 0)
          => /\ result = "Ok"
             /\ encoder = <<BgPass>>
             /\ submitted = <<encoder>>
             /\ presented = 1
             /\ vstaged = <<>> /\ istaged = <<>>)
    /\ [][(triangles = <<>> /\ pc # "idle") =>
             /\ vertex_buffer' = vertex_buffer
             /\ index_buffer' = index_buffer]_vars

\* an empty frame was rendered right after a resize to 800x600
C9_Witness ==
    /\ pc = "match"
    /\ triangles = <<>>
    /\ config = <<800, 600>>
    /\ result = "Ok"
    /\ presented = 1

\* the calls of render in this tick
RenderCalls == {k \in 1..Len(events) : events[k] \in {"acquire", "render_err"}}

LastTwo(sq) == IF Len(sq) < 2 THEN sq ELSE SubSeq(sq, Len(sq) - 1, Len(sq))

\* C10: when render fails with Lost or Outdated the handler reconfigures the
\* surface in the same tick, with a redraw pending for a later tick; when it
\* fails with another error the handler reports it and does not reconfigure;
\* render is called once per tick.
C10_SurfaceErrorHandling ==
    /\ [](pc = "end" =>
            /\ result \in {"Lost", "Outdated"} =>
                  /\ LastTwo(events) = <<"render_err", "configure">>
                  /\ surface = "Good"
                  /\ config = <<screen.screen_width, screen.screen_height>>
                  /\ redraw_requested
            /\ result \in SurfaceErrors \ {"Lost", "Outdated"} =>
                  /\ LastTwo(events) = <<"render_err", "log_error">>
                  /\ surface = result
            /\ Cardinality(RenderCalls) = 1)
    /\ [][(pc = "match" /\ result \in SurfaceErrors \ {"Lost", "Outdated"}) =>
             /\ config' = config
             /\ surface' = surface]_vars

\* a tick that met an outdated surface and reconfigured it
C10_Witness ==
    /\ pc = "end"
    /\ result = "Outdated"
    /\ surface = "Good"

\* C11: the surface configuration's width and height are both > 0 in every
\* state after create, under any sequence of resize events (zero-size ones
\* included), rescale requests, redraw ticks and Lost / Outdated recoveries.
C11_ConfigPositive == config[1] > 0 /\ config[2] > 0

NotDrawable == window.minimized \/ window.size[1] = 0 \/ window.size[2] = 0

\* C12: on a redraw tick at which the window is minimized or has zero width
\* or zero height, the whole render tick is skipped: no surface acquire, no
\* reconfiguration, no buffer or cache update and no draw happens in it.
C12_SkipsWhenNotDrawable ==
    NotDrawable =>
        \A k \in 1..Len(events) : events[k] \in {"skip", "request_redraw"}

Count(sq, e) == Cardinality({k \in 1..Len(sq) : sq[k] = e})

\* C13: a redraw tick that renders a frame requests exactly one future redraw,
\* pending when the tick ends, whether render returned Ok or an error.
C13_OneRedrawRequest ==
    (pc \notin ({"idle", "panicked"} \cup TextureCalls)) =>
        /\ Count(events, "request_redraw") = 1
        /\ redraw_requested

\* a tick whose render failed with a timeout has one redraw request pending
C13_Witness ==
    /\ pc = "end"
    /\ result = "Timeout"
    /\ Count(events, "request_redraw") = 1
    /\ redraw_requested

HasEmptyMesh(tris) ==
    \E i \in 1..Len(tris) :
        tris[i].kind = "Mesh" /\ (tris[i].nv = 0 \/ tris[i].ni = 0)

\* the foreground pass of a frame that acquired its texture is over
FgDone == pc \in {"submit", "present"} \/ (RenderReturned /\ result = "Ok")

\* C18: a list of meshes of which one has zero vertices or zero indices never
\* makes render fail, and every other mesh of it that has geometry and a
\* non-empty scissor rect is drawn with its own data.
C18_EmptyMeshHarmless ==
    (HasEmptyMesh(triangles) /\ ~HasCallback(triangles)) =>
        /\ pc # "panicked"
        /\ FgDone =>
              \A i \in 1..Len(triangles) :
                  (NotSkipped(i) /\ triangles[i].nv > 0 /\ triangles[i].ni > 0) =>
                      \E k \in DrawsOf(i), sv \in 1..Len(vstaged), si \in 1..Len(istaged) :
                          /\ vstaged[sv].prim = i /\ istaged[si].prim = i
                          /\ encoder[k].vrange = <<vstaged[sv].start, vstaged[sv].end>>
                          /\ encoder[k].irange = <<istaged[si].start, istaged[si].end>>

\* the first position of e in sq, 0 when it does not occur
Pos(sq, e) ==
    IF \E k \in 1..Len(sq) : sq[k] = e
    THEN CHOOSE k \in 1..Len(sq) : sq[k] = e /\ \A j \in 1..(k - 1) : sq[j] # e
    ELSE 0

StagingEvents == {"send_vertex_buffer", "send_index_buffer"}

\* C19: a successful render goes background pass, staging, foreground pass,
\* submission: the buffers are replaced and written only before the first
\* foreground draw is encoded, every pass is encoded before the submission,
\* and there is one queue submission, of the whole frame, then one present.
C19_FrameOrder ==
    /\ []((RenderReturned /\ result = "Ok") =>
            /\ Count(events, "bg_pass") = 1
            /\ Count(events, "submit") = 1
            /\ Count(events, "present") = 1
            /\ Pos(events, "bg_pass") < Pos(events, "submit")
            /\ Pos(events, "present") = Pos(events, "submit") + 1
            /\ Pos(events, "present") = Len(events)
            /\ submitted = <<encoder>>
            /\ presented = 1
            /\ \A k \in 1..Len(events) :
                  /\ events[k] \in StagingEvents =>
                        /\ Pos(events, "bg_pass") < k
                        /\ k < Pos(events, "fg_pass")
                  /\ events[k] = "draw" =>
                        /\ Pos(events, "send_vertex_buffer") # 0
                        /\ Pos(events, "send_index_buffer") # 0
                        /\ Pos(events, "fg_pass") # 0
                        /\ Pos(events, "fg_pass") < k
                        /\ k < Pos(events, "submit"))
    /\ [][(pc # "end" /\ (\/ vertex_buffer' # vertex_buffer
                          \/ index_buffer' # index_buffer
                          \/ vstaged' # vstaged
                          \/ istaged' # istaged)) =>
             /\ Draws = {}
             /\ Count(events, "fg_pass") = 0
             /\ submitted = <<>>]_vars

\* a frame was rendered whose staging replaced the vertex buffer and whose
\* foreground pass drew two meshes
C19_Witness ==
    /\ RenderReturned /\ result = "Ok"
    /\ vertex_buffer.size = 2 * measure_buffer_size(triangles)[1]
    /\ Cardinality(Draws) = 2

RenderFailed == pc = "panicked" \/ (RenderReturned /\ result \in SurfaceErrors)

\* the frame's geometry is in the buffers
GeometryStaged ==
    /\ vstaged = WriteRanges(triangles, 1, 0, "nv", VertexSize)
    /\ istaged = WriteRanges(triangles, 1, 0, "ni", IndexSize)

\* the frame's texture delta is in the cache
DeltaInCache ==
    /\ \A k \in 1..Len(textures_delta.set) :
          LET d == textures_delta.set[k]
          IN  (d.pos = None /\ d.id \notin textures_delta.free) => d.id \in DOMAIN cache
    /\ \A id \in textures_delta.free : id \notin DOMAIN cache

\* C20: when render fails, by an error or by the unsupported-primitive
\* failure, nothing of the frame is submitted or presented, and of the frame's
\* updates of the vertex buffer, the index buffer and the texture cache either
\* all were applied or none was.
C20_FailureIsAtomic ==
    RenderFailed =>
        /\ submitted = <<>>
        /\ presented = 0
        /\ \/ GeometryStaged /\ DeltaInCache
           \/ vstaged = <<>> /\ istaged = <<>>

\* a batch applied entry by entry: a patch is written into the texture that
\* the cache holds for its id at that point, a new texture replaces it
RECURSIVE ApplyInOrder(_, _)
ApplyInOrder(images, c) ==
    IF images = <<>> THEN c
    ELSE LET img == Head(images)
             c1 == IF img.pos = None
                   THEN [id \in (DOMAIN c) \cup {img.id} |->
                            IF id = img.id
                            THEN send_texture_image_internal(
                                     into_texture(img.width, img.height), img, <<0, 0>>)
                            ELSE c[id]]
                   ELSE IF img.id \in DOMAIN c
                   THEN [c EXCEPT ![img.id] =
                            send_texture_image_internal(c[img.id], img, img.pos)]
                   ELSE c
         IN  ApplyInOrder(Tail(images), c1)

PatchesOf(images, id, p) ==
    {k \in 1..Len(images) :
        /\ images[k].id = id
        /\ images[k].pos # None
        /\ images[k].pos[1] <= p[1] /\ p[1] < images[k].pos[1] + images[k].width
        /\ images[k].pos[2] <= p[2] /\ p[2] < images[k].pos[2] + images[k].height}

\* C15: a patch delta whose id is not in the cache is passed over as a single
\* entry: the patch pass creates no cache entry and writes no texel for it,
\* and every patch of the batch whose id is in the cache is still written.
C15_UnknownPatchRejected ==
    [][(Idle /\ pc' = "send_texture_images_pos") =>
          LET images == textures_delta'.set
          IN  /\ DOMAIN cache' = DOMAIN cache
              /\ \A id \in DOMAIN cache :
                    /\ cache'[id].width = cache[id].width
                    /\ cache'[id].height = cache[id].height
                    /\ DOMAIN cache'[id].texels = DOMAIN cache[id].texels
                    /\ \A p \in DOMAIN cache[id].texels :
                          LET ks == PatchesOf(images, id, p)
                              last == images[SetMax(ks)]
                          IN  cache'[id].texels[p] =
                                  IF ks = {} THEN cache[id].texels[p]
                                  ELSE ImageTexel(last, p[1] - last.pos[1],
                                                  p[2] - last.pos[2])]_vars

\* a patch of the unknown T2 was passed over and the patch of T1 after it
\* was written
C15_Witness ==
    /\ pc = "send_texture_images_pos"
    /\ textures_delta.set = <<ImageDelta("T2", <<0, 0>>, <<1, 1>>),
                              ImageDelta("T1", <<0, 0>>, <<1, 1>>)>>
    /\ DOMAIN cache = {"T1"}
    /\ cache["T1"].texels[<<0, 0>>] = <<"part", 1, 1, 0, 0>>
    /\ cache["T1"].texels[<<1, 1>>][1] = "full"

\* the new-texture deltas of a batch for texture id
NewOf(images, id) ==
    {k \in 1..Len(images) : images[k].id = id /\ images[k].pos = None}

\* C16: after release_textures(ids) no id of ids is a key of the cache and
\* every other entry is as before, so that releasing an absent id changes
\* nothing; an entry comes into being only by a new-texture delta for its id
\* and goes only by a release of its id.
C16_EvictionAndLifetime ==
    [][/\ (Idle /\ pc' = "release_textures") =>
            LET ids == textures_delta'.free
            IN  /\ DOMAIN cache' = (DOMAIN cache) \ ids
                /\ \A id \in DOMAIN cache' : cache'[id] = cache[id]
                /\ (ids \cap DOMAIN cache = {}) => cache' = cache
       /\ \A id \in TexIds :
            /\ (id \notin DOMAIN cache /\ id \in DOMAIN cache') =>
                  /\ pc' \in {"update_bind_groups", "send_texture"}
                  /\ NewOf(textures_delta'.set, id) # {}
            /\ (id \in DOMAIN cache /\ id \notin DOMAIN cache') =>
                  /\ pc' = "release_textures"
                  /\ id \in textures_delta'.free
            /\ (pc' \in {"update_bind_groups", "send_texture"}
                    /\ NewOf(textures_delta'.set, id) # {}) =>
                  id \in DOMAIN cache']_vars

\* T1 was released and T2, not named, is still cached
C16_Witness ==
    /\ pc = "release_textures"
    /\ textures_delta.free = {"T1"}
    /\ DOMAIN cache = {"T2"}
    /\ cache["T2"].texels[<<0, 0>>][1] = "part"

SetMin(S) == CHOOSE x \in S : \A y \in S : x <= y

\* the patches of a batch that overrun the texture cached under their id
Overruns(images, c) ==
    {k \in 1..Len(images) :
        /\ images[k].pos # None
        /\ images[k].id \in DOMAIN c
        /\ \/ images[k].pos[1] + images[k].width > c[images[k].id].width
           \/ images[k].pos[2] + images[k].height > c[images[k].id].height}

OptionsOf(texture_options) == {texture_options[k] : k \in 1..Len(texture_options)}

\* C22: an update_samplers call leaves in the sampler cache the keys it held
\* and the keys it was given; a key it held keeps its sampler; a key that
\* is new gets a sampler of its options that no other key has; no other
\* step changes the cache (so no key is ever removed); and the samplers
\* created are as many as the keys, one per distinct key.
C22_OneSamplerPerKey ==
    /\ [](LET serials == {samplers[k].serial : k \in DOMAIN samplers}
          IN  /\ serials = 1..Cardinality(DOMAIN samplers)
              /\ \A k1, k2 \in DOMAIN samplers :
                    (samplers[k1].serial = samplers[k2].serial) => (k1 = k2))
    /\ [][/\ (Idle /\ pc' = "update_samplers") =>
               LET given == OptionsOf(textures_delta'.options)
               IN  /\ DOMAIN samplers' = (DOMAIN samplers) \cup given
                   /\ \A k \in DOMAIN samplers : samplers'[k] = samplers[k]
                   /\ \A k \in given \ DOMAIN samplers :
                         /\ samplers'[k].mag_filter = k.magnification
                         /\ samplers'[k].min_filter = k.minification
                         /\ \A j \in DOMAIN samplers :
                               samplers'[k].serial # samplers[j].serial
          /\ ~(Idle /\ pc' = "update_samplers") => (samplers' = samplers)]_vars

\* a call was given a new key and then a key the cache held: the key it
\* held has the sampler created first, the new key the one created second
C22_Witness ==
    /\ pc = "update_samplers"
    /\ textures_delta.options =
          <<TextureOptions("Linear", "Nearest", "MirroredRepeat"),
            TextureOptions("Nearest", "Nearest", "ClampToEdge")>>
    /\ DOMAIN samplers = {TextureOptions("Linear", "Nearest", "MirroredRepeat"),
                          TextureOptions("Nearest", "Nearest", "ClampToEdge")}
    /\ samplers[TextureOptions("Nearest", "Nearest", "ClampToEdge")].serial = 1
    /\ samplers[TextureOptions("Linear", "Nearest", "MirroredRepeat")].serial = 2
    /\ samplers[TextureOptions("Linear", "Nearest", "MirroredRepeat")].address_mode
          = "MirrorRepeat"

\* a step with which a handled redraw tick ends: handle_redraw returns after
\* render, or it returns at once because the window is minimized
TickReturns ==
    \/ pc = "end" /\ pc' = "idle"
    \/ /\ Idle /\ redraw_requested /\ window.minimized
       /\ pc' = "idle"
       /\ events' = <<"skip">>
       /\ UNCHANGED <<window, surface, config>>

\* C23: when a handled redraw tick ends, the tick skipped for a minimized
\* window included, a further redraw request is pending.
C23_RedrawPendingAfterTick == [][TickReturns => redraw_requested']_vars

\* C24: every scissor rect (x, y, w, h) that to_scissor_rect returns and
\* encode_fg sets has w > 0 and h > 0 and ends inside the screen of the
\* descriptor, x + w <= screen_width and y + h <= screen_height, for clip
\* rects that are inverted, negative or beyond the screen too; and the
\* screen is the size the surface is configured at, so that the rect lies
\* inside the render target.
C24_ScissorInsideTarget ==
    \A k \in Draws :
        LET r == encoder[k].scissor
        IN  /\ r[3] > 0 /\ r[4] > 0
            /\ r[1] >= 0 /\ r[2] >= 0
            /\ r[1] + r[3] <= screen.screen_width
            /\ r[2] + r[4] <= screen.screen_height
            /\ r[1] + r[3] <= config[1]
            /\ r[2] + r[4] <= config[2]

\* a clip rect from left of the screen to right of it and below it was cut
\* to the screen
C24_Witness ==
    /\ pc = "submit"
    /\ screen = [pixel_per_point |-> Fix(2), screen_width |-> 800, screen_height |-> 600]
    /\ triangles[1].clip_rect =
          [left |-> Fix(0 - 5), top |-> Fix(50), right |-> Fix(900), bottom |-> Fix(700)]
    /\ \E k \in Draws : encoder[k].scissor = <<0, 100, 800, 500>>

\* the byte ranges staged for the meshes of tris are one per mesh, in input
\* order, each of the mesh's size, the first at offset 0 and each next one
\* at the end of the one before, pairwise disjoint, ending at the required
\* size and inside the buffer, whose capacity is above the required size
RangesOk(staged, tris, field, unit, required, buffer) ==
    LET meshes == {i \in 1..Len(tris) : tris[i].kind = "Mesh"}
        n == Len(staged)
    IN  /\ n = Cardinality(meshes)
        /\ {staged[j].prim : j \in 1..n} = meshes
        /\ staged[1].start = 0
        /\ \A j \in 1..(n - 1) :
              /\ staged[j].prim < staged[j + 1].prim
              /\ staged[j + 1].start = staged[j].end
        /\ \A j \in 1..n :
              /\ staged[j].end - staged[j].start = tris[staged[j].prim][field] * unit
              /\ staged[j].end <= buffer.size
        /\ \A j, k \in 1..n : (j < k) => (staged[j].end <= staged[k].start)
        /\ staged[n].end = required
        /\ buffer.size > required

\* C25: in every staging call of render the byte ranges written for the Mesh
\* primitives are contiguous from offset 0 in input order, pairwise
\* disjoint, sum to the size measure_buffer_size returns (a Callback has no
\* range and adds nothing to the size), and lie within the capacity of the
\* buffer held after the growth check, which is above the required size.
C25_StagedRangesFit ==
    /\ (vstaged # <<>>) =>
          RangesOk(vstaged, triangles, "nv", VertexSize,
                   measure_buffer_size(triangles)[1], vertex_buffer)
    /\ (istaged # <<>>) =>
          RangesOk(istaged, triangles, "ni", IndexSize,
                   measure_buffer_size(triangles)[2], index_buffer)

\* two meshes were staged one after the other, and the second one, which
\* alone fills the initial vertex buffer, lies inside the buffer grown for it
C25_Witness ==
    /\ pc = "encode_fg"
    /\ Len(triangles) = 2
    /\ vstaged = <<[prim |-> 1, start |-> 0, end |-> VertexSize],
                   [prim |-> 2, start |-> VertexSize,
                    end |-> VertexSize + VertexSize * InitVertexCount]>>
    /\ vertex_buffer.size = 2 * (VertexSize + VertexSize * InitVertexCount)
    /\ istaged[2].start = 3 * IndexSize

====
